---------------------------- MODULE Spec2Model ----------------------------
(***************************************************************************)
(* A model of extract_anki.py: the block extractor (find_environments),    *)
(* the heading context (get_section_context), the macro expander           *)
(* (expand_macros), the math and whitespace rewrites of                    *)
(* latex_to_anki_mathjax, the card assembly of process_file and the batch  *)
(* driver main.                                                            *)
(*                                                                         *)
(* Each component has its own variables, initial condition and next-state  *)
(* relation; the variables of the components a specification does not run *)
(* stay at their idle values.                                              *)
(***************************************************************************)
EXTENDS Naturals, Integers, Sequences, FiniteSets, TLC

VARIABLES
    \* find_environments
    tex_content, env_i, env_pc, pos, start, content_start, depth,
    search_pos, end_pos, results,
    \* get_section_context
    sections, query_pos, sec_i, current, context, ctx_pc,
    \* expand_macros, and the macro list process_file gives it
    body, text, global_macros, file_macros, all_macros, pass, macro_i, mac_pc,
    \* latex_to_anki_mathjax
    mj_in, mj_text, mj_pc,
    \* the card assembly of process_file and the row main writes for it
    course, env_type, title, section_ctx, back, card, row, row_pc,
    \* main
    tex_files, header_sty, loaded_macros, file_i, all_cards, output_open,
    output_rows, main_pc

envVars == <<tex_content, env_i, env_pc, pos, start, content_start, depth,
             search_pos, end_pos, results>>
ctxVars == <<sections, query_pos, sec_i, current, context, ctx_pc>>
macVars == <<body, text, global_macros, file_macros, all_macros, pass,
             macro_i, mac_pc>>
mjVars == <<mj_in, mj_text, mj_pc>>
rowVars == <<course, env_type, title, section_ctx, back, card, row, row_pc>>
mainVars == <<tex_files, header_sty, loaded_macros, file_i, all_cards,
              output_open, output_rows, main_pc>>
vars == <<envVars, ctxVars, macVars, mjVars, rowVars, mainVars>>

\* What each component leaves alone: the variables of the other components.
notEnv == <<ctxVars, macVars, mjVars, rowVars, mainVars>>
notCtx == <<envVars, macVars, mjVars, rowVars, mainVars>>
notMac == <<envVars, ctxVars, mjVars, rowVars, mainVars>>
notMj == <<envVars, ctxVars, macVars, rowVars, mainVars>>
notRow == <<envVars, ctxVars, macVars, mjVars, mainVars>>
notMain == <<envVars, ctxVars, macVars, mjVars, rowVars>>

\* Python's None, for an offset or a match that is absent.
None == -1

Min(S) == CHOOSE m \in S : \A n \in S : m <= n

Max(S) == CHOOSE m \in S : \A n \in S : m >= n

\* All sequences over S of length 0..n.
SeqsUpTo(S, n) == UNION {[1..k -> S] : k \in 0..n}

(***************************************************************************)
(* find_environments                                                       *)
(*                                                                         *)
(* A document is a sequence of tokens: a \begin{env} marker, an \end{env}  *)
(* marker, or one character.  A marker holds exactly one backslash, so     *)
(* two markers never overlap and every text splits into tokens in one way. *)
(* Offsets count tokens from 0; they are ordered as the character offsets  *)
(* are, and a match of a marker at offset o ends at offset o + 1.          *)
(***************************************************************************)
ENV_TYPES == <<"theorem", "proposition", "definition", "lemma", "corollary">>

\* The block types whose markers the modelled documents hold.
DocTypes == {"theorem", "lemma"}

\* The characters the modelled documents hold besides markers.
DocChars == {" ", "x"}

MaxDocLen == 5

Begin(env) == [k |-> "begin", v |-> env]

End(env) == [k |-> "end", v |-> env]

Ch(c) == [k |-> "ch", v |-> c]

DocTokens ==
    {Begin(e) : e \in DocTypes} \cup {End(e) : e \in DocTypes}
        \cup {Ch(c) : c \in DocChars}

\* re.search(marker, s[from:]) on the whole text: the offset of the first
\* token tok at or after offset from, or None.
SearchFrom(s, tok, from) ==
    LET hits == {o \in from..(Len(s) - 1) : s[o + 1] = tok}
    IN  IF hits = {} THEN None ELSE Min(hits)

IsSpace(tok) == tok.k = "ch" /\ tok.v \in {" ", "\t", "\n"}

\* str.strip(): leading and trailing whitespace characters removed.
RECURSIVE Strip(_)
Strip(s) ==
    IF s = <<>> THEN s
    ELSE IF IsSpace(Head(s)) THEN Strip(Tail(s))
    ELSE IF IsSpace(s[Len(s)]) THEN Strip(SubSeq(s, 1, Len(s) - 1))
    ELSE s

\* tex_content[a:b] for offsets 0 <= a <= b.
Slice(s, a, b) == SubSeq(s, a + 1, b)

\* results.sort(key=lambda x: x[2]): a stable insertion sort on the start offset.
RECURSIVE InsertByStart(_, _)
InsertByStart(sorted, r) ==
    IF sorted = <<>> THEN <<r>>
    ELSE IF Head(sorted).start <= r.start
         THEN <<Head(sorted)>> \o InsertByStart(Tail(sorted), r)
         ELSE <<r>> \o sorted

\* A variant that returns the blocks in the order the scans found them:
\* all blocks of the first type, then all of the second, and so on.
KeepScanOrder(rs) == rs

RECURSIVE SortByStart(_)
SortByStart(rs) ==
    IF rs = <<>> THEN <<>>
    ELSE InsertByStart(SortByStart(SubSeq(rs, 1, Len(rs) - 1)), rs[Len(rs)])

InitEnvIdle ==
    /\ tex_content = <<>>
    /\ env_i = 0
    /\ env_pc = "idle"
    /\ pos = 0
    /\ start = None
    /\ content_start = None
    /\ depth = 0
    /\ search_pos = 0
    /\ end_pos = None
    /\ results = <<>>

InitEnv ==
    /\ tex_content \in SeqsUpTo(DocTokens, MaxDocLen)
    /\ env_i = 1
    /\ env_pc = "search"
    /\ pos = 0
    /\ start = None
    /\ content_start = None
    /\ depth = 0
    /\ search_pos = 0
    /\ end_pos = None
    /\ results = <<>>

\* Lines 132-141: the next open marker of the current type at or after pos;
\* without one the loop over this type ends and the next type starts at 0.
EnvSearch ==
    /\ env_pc = "search"
    /\ LET m == SearchFrom(tex_content, Begin(ENV_TYPES[env_i]), pos)
       IN  IF m = None
           THEN /\ env_i' = env_i + 1
                /\ pos' = 0
                /\ env_pc' = IF env_i = Len(ENV_TYPES) THEN "sort" ELSE "search"
                /\ UNCHANGED <<start, content_start, depth, search_pos, end_pos>>
           ELSE /\ start' = m
                /\ content_start' = m + 1
                /\ depth' = 1
                /\ search_pos' = m + 1
                /\ end_pos' = None
                /\ env_pc' = "scan"
                /\ UNCHANGED <<env_i, pos>>
    /\ UNCHANGED <<tex_content, results, notEnv>>

\* Lines 142-154: one turn of the depth-counting loop.
EnvScan ==
    /\ env_pc = "scan"
    /\ depth > 0
    /\ LET env == ENV_TYPES[env_i]
           next_begin == SearchFrom(tex_content, Begin(env), search_pos)
           next_end == SearchFrom(tex_content, End(env), search_pos)
       IN  IF next_end = None
           THEN \* break: malformed
                /\ env_pc' = "close"
                /\ UNCHANGED <<depth, search_pos, end_pos>>
           ELSE IF next_begin # None /\ next_begin < next_end
           THEN /\ depth' = depth + 1
                /\ search_pos' = next_begin + 1
                /\ UNCHANGED <<env_pc, end_pos>>
           ELSE /\ depth' = depth - 1
                /\ end_pos' = IF depth - 1 = 0 THEN next_end ELSE end_pos
                /\ search_pos' = next_end + 1
                /\ env_pc' = IF depth - 1 = 0 THEN "close" ELSE "scan"
    /\ UNCHANGED <<tex_content, env_i, pos, start, content_start, results,
                   notEnv>>

\* A variant that stops looking for blocks of the current type at the first
\* open marker that is never closed.
EnvCloseGivingUp ==
    /\ env_pc = "close"
    /\ results' =
          IF end_pos # None
          THEN Append(results,
                      [env |-> ENV_TYPES[env_i],
                       body |-> Strip(Slice(tex_content, content_start, end_pos)),
                       start |-> start])
          ELSE results
    /\ pos' = IF end_pos # None THEN content_start ELSE Len(tex_content)
    /\ env_pc' = "search"
    /\ UNCHANGED <<tex_content, env_i, start, content_start, depth, search_pos,
                   end_pos, notEnv>>

\* Lines 155-158: a block whose close marker was found is recorded, and the
\* search for the next open marker resumes right after this open marker.
EnvClose ==
    /\ env_pc = "close"
    /\ results' =
          IF end_pos # None
          THEN Append(results,
                      [env |-> ENV_TYPES[env_i],
                       body |-> Strip(Slice(tex_content, content_start, end_pos)),
                       start |-> start])
          ELSE results
    /\ pos' = content_start
    /\ env_pc' = "search"
    /\ UNCHANGED <<tex_content, env_i, start, content_start, depth, search_pos,
                   end_pos, notEnv>>

\* Lines 159-161: the final sort by start offset, and the return.
EnvSort ==
    /\ env_pc = "sort"
    /\ results' = SortByStart(results)
    /\ env_pc' = "done"
    /\ UNCHANGED <<tex_content, env_i, pos, start, content_start, depth,
                   search_pos, end_pos, notEnv>>

NextEnv ==
    \/ EnvSearch
    \/ EnvScan
    \/ EnvClose
    \/ EnvSort

(***************************************************************************)
(* get_section_context                                                     *)
(*                                                                         *)
(* sections is what find_sections returns: one (position, type, title)     *)
(* per heading, in the order of re.finditer, which is by strictly          *)
(* increasing position.                                                    *)
(***************************************************************************)
hierarchy == <<"section", "subsection", "subsubsection">>

SecTitles == {"Ch1", "S1", "S2"}

\* The most headings a modelled document holds; they sit at positions
\* 0..MaxSections - 1, and so do the positions asked about.
MaxSections == 3

SecPositions == 0..(MaxSections - 1)

SecTypes == {hierarchy[i] : i \in 1..Len(hierarchy)}

\* The list of n headings with the given positions, types and titles.
Headings(ps, tys, tis) ==
    [i \in 1..Len(ps) |-> [pos |-> ps[i], type |-> tys[i], title |-> tis[i]]]

PositionOrdered(ps) ==
    \A i \in 1..(Len(ps) - 1) : ps[i] < ps[i + 1]

\* hierarchy.index(sec_type)
HierarchyIndex(t) == CHOOSE i \in 1..Len(hierarchy) : hierarchy[i] = t

\* hierarchy[idx + 1:] for the 0-based idx of t.
LowerLevels(t) ==
    {hierarchy[i] : i \in (HierarchyIndex(t) + 1)..Len(hierarchy)}

RECURSIVE JoinWith(_, _)
\* sep.join(parts)
JoinWith(sep, parts) ==
    IF parts = <<>> THEN ""
    ELSE IF Len(parts) = 1 THEN parts[1]
    ELSE parts[1] \o sep \o JoinWith(sep, Tail(parts))

RECURSIVE SelectLevels(_, _)
\* [cur[level] for level in levels if level in cur]
SelectLevels(levels, cur) ==
    IF levels = <<>> THEN <<>>
    ELSE (IF Head(levels) \in DOMAIN cur THEN <<cur[Head(levels)]>> ELSE <<>>)
            \o SelectLevels(Tail(levels), cur)

\* The empty dict.
EmptyDict == [k \in {} |-> ""]

InitCtxIdle ==
    /\ sections = <<>>
    /\ query_pos = 0
    /\ sec_i = 0
    /\ current = EmptyDict
    /\ context = ""
    /\ ctx_pc = "idle"

InitCtx ==
    /\ \E n \in 0..MaxSections :
          \E ps \in {p \in [1..n -> SecPositions] : PositionOrdered(p)} :
              \E tys \in [1..n -> SecTypes], tis \in [1..n -> SecTitles] :
                  sections = Headings(ps, tys, tis)
    /\ query_pos \in SecPositions
    /\ sec_i = 1
    /\ current = EmptyDict
    /\ context = ""
    /\ ctx_pc = "loop"

\* A variant that records the heading and keeps the deeper levels.
SetHeadingKeepingLower(cur, sec_type, sec_title) ==
    [k \in DOMAIN cur \cup {sec_type} |->
        IF k = sec_type THEN sec_title ELSE cur[k]]

\* current[sec_type] = sec_title, then current.pop(lower, None) for every
\* level below sec_type (lines 180-184).
SetHeading(cur, sec_type, sec_title) ==
    [k \in (DOMAIN cur \cup {sec_type}) \ LowerLevels(sec_type) |->
        IF k = sec_type THEN sec_title ELSE cur[k]]

\* Lines 177-184: one turn of the loop over sections, which ends at the
\* first heading after pos or at the end of the list.
CtxVisit ==
    /\ ctx_pc = "loop"
    /\ IF sec_i > Len(sections) \/ sections[sec_i].pos > query_pos
       THEN /\ ctx_pc' = "join"
            /\ UNCHANGED <<sec_i, current>>
       ELSE /\ current' = SetHeading(current, sections[sec_i].type,
                                     sections[sec_i].title)
            /\ sec_i' = sec_i + 1
            /\ UNCHANGED ctx_pc
    /\ UNCHANGED <<sections, query_pos, context, notCtx>>

\* Lines 185-189.
CtxJoin ==
    /\ ctx_pc = "join"
    /\ LET parts == SelectLevels(hierarchy, current)
       IN  context' = IF parts # <<>> THEN JoinWith(" > ", parts) ELSE ""
    /\ ctx_pc' = "done"
    /\ UNCHANGED <<sections, query_pos, sec_i, current, notCtx>>

NextCtx ==
    \/ CtxVisit
    \/ CtxJoin

(***************************************************************************)
(* expand_macros                                                           *)
(*                                                                         *)
(* A text is a sequence of tokens: a control word (a backslash and         *)
(* letters, such as \a), a brace, a placeholder (#1, #2) or one other      *)
(* character.  Every pattern of expand_macros starts with the backslash of *)
(* a macro name, so a match starts at a control word; a control word       *)
(* followed by a letter token stands for a longer control word, which no   *)
(* modelled macro names, and is matched by none of the patterns.           *)
(***************************************************************************)
\* [a-zA-Z], for the one-character tokens of the modelled texts.
IsAlpha(tok) == tok \in {"x", "G", "L"}

Macro(name, num_args, replacement) ==
    [name |-> name, num_args |-> num_args, replacement |-> replacement]

\* The index of the first "}" of t at or after index from, or 0.
FirstClose(t, from) ==
    LET closes == {i \in from..Len(t) : t[i] = "}"}
    IN  IF closes = {} THEN 0 ELSE Min(closes)

\* The number of tokens the pattern of macro m matches at the head of t, or
\* 0 when it does not match there (lines 79, 84 and 92):
\*   name(?![a-zA-Z]),  name\{([^}]*)\},  name\{([^}]*)\}\{([^}]*)\}
MatchLen(t, m) ==
    IF t = <<>> \/ Head(t) # m.name THEN 0
    ELSE IF m.num_args = 0
    THEN IF Len(t) >= 2 /\ IsAlpha(t[2]) THEN 0 ELSE 1
    ELSE IF m.num_args \notin {1, 2} \/ Len(t) < 3 \/ t[2] # "{" THEN 0
    ELSE LET c1 == FirstClose(t, 3)
         IN  IF c1 = 0 THEN 0
             ELSE IF m.num_args = 1 THEN c1
             ELSE IF Len(t) < c1 + 2 \/ t[c1 + 1] # "{" THEN 0
             ELSE FirstClose(t, c1 + 2)

RECURSIVE ReplaceToken(_, _, _)
\* str.replace(placeholder, arg) on a template.
ReplaceToken(tpl, placeholder, arg) ==
    IF tpl = <<>> THEN <<>>
    ELSE (IF Head(tpl) = placeholder THEN arg ELSE <<Head(tpl)>>)
            \o ReplaceToken(Tail(tpl), placeholder, arg)

\* What a match of n tokens at the head of t is replaced by (lines 81, 87
\* and 95).
Replacement(t, m, n) ==
    IF m.num_args = 0 THEN m.replacement
    ELSE LET c1 == FirstClose(t, 3)
             g1 == SubSeq(t, 3, c1 - 1)
         IN  IF m.num_args = 1
             THEN ReplaceToken(m.replacement, "#1", g1)
             ELSE ReplaceToken(ReplaceToken(m.replacement, "#1", g1), "#2",
                               SubSeq(t, c1 + 2, n - 1))

RECURSIVE Sub(_, _)
\* re.sub(pattern, replacer, t) for macro m: every match, leftmost first
\* and not overlapping, is replaced; what was put in is not scanned again.
Sub(t, m) ==
    IF t = <<>> THEN <<>>
    ELSE LET n == MatchLen(t, m)
         IN  IF n = 0
             THEN <<Head(t)>> \o Sub(Tail(t), m)
             ELSE Replacement(t, m, n) \o Sub(SubSeq(t, n + 1, Len(t)), m)

\* The tokens of the modelled block bodies.
NestTokens == {"\\a", "{", "}", "x"}

MaxNestLen == 6

\* Macros whose templates hold no macro name, of arity 0, 1 and 2.
PlainMacros ==
    {Macro("\\a", 0, <<"x">>),
     Macro("\\a", 1, <<"x", "#1">>),
     Macro("\\a", 2, <<"#2", "#1">>)}

DupTokens == {"\\a", "\\b", "{", "}"}

MaxDupLen == 5

\* The shared file's definition of \a with k arguments: its template is
\* marked G, and one variant brings \a in again.
SharedDefs(k) ==
    IF k = 0
    THEN {Macro("\\a", 0, <<"G">>), Macro("\\a", 0, <<"G", "\\a">>)}
    ELSE {Macro("\\a", 1, <<"G", "#1">>),
          Macro("\\a", 1, <<"G", "\\a", "{", "#1", "}">>)}

\* The document's own definition of \a with k arguments, marked L.
OwnDef(k) ==
    IF k = 0 THEN Macro("\\a", 0, <<"L">>) ELSE Macro("\\a", 1, <<"L", "#1">>)

\* A definition of \b whose template uses \a with k arguments.
UsesA(k) ==
    IF k = 0 THEN Macro("\\b", 0, <<"\\a">>)
    ELSE Macro("\\b", 0, <<"\\a", "{", "}">>)

InitMacIdle ==
    /\ body = <<>>
    /\ text = <<>>
    /\ global_macros = <<>>
    /\ file_macros = <<>>
    /\ all_macros = <<>>
    /\ pass = 0
    /\ macro_i = 0
    /\ mac_pc = "idle"

\* Block bodies with nested braces, macro lists without macro names in the
\* templates.
InitMacNest ==
    /\ body \in SeqsUpTo(NestTokens, MaxNestLen)
    /\ text = body
    /\ global_macros \in {<<>>} \cup {<<m>> : m \in {Macro("\\a", 1, <<"x", "#1">>)}}
    /\ file_macros \in {<<>>} \cup {<<m>> : m \in PlainMacros}
    /\ all_macros = <<>>
    /\ pass = 0
    /\ macro_i = 1
    /\ mac_pc = "join"

\* A shared definition of \a and the document's own definition of \a with
\* the same arity, with or without a definition of \b between them.
InitMacDup ==
    /\ body \in SeqsUpTo(DupTokens, MaxDupLen)
    /\ text = body
    /\ \E k \in {0, 1} :
          /\ global_macros \in {<<g>> : g \in SharedDefs(k)}
          /\ file_macros \in {<<OwnDef(k)>>, <<UsesA(k), OwnDef(k)>>}
    /\ all_macros = <<>>
    /\ pass = 0
    /\ macro_i = 1
    /\ mac_pc = "join"

\* A variant that lists the document's own definitions first.
OwnThenShared(shared, own) == own \o shared

\* process_file, line 310: the shared definitions, then the document's own.
JoinMacroLists(shared, own) == shared \o own

MacJoin ==
    /\ mac_pc = "join"
    /\ all_macros' = JoinMacroLists(global_macros, file_macros)
    /\ mac_pc' = "expand"
    /\ UNCHANGED <<body, text, global_macros, file_macros, pass, macro_i, notMac>>

\* Lines 75-97: one turn of the loop over the macro list.
MacApply ==
    /\ mac_pc = "expand"
    /\ macro_i <= Len(all_macros)
    /\ text' = Sub(text, all_macros[macro_i])
    /\ macro_i' = macro_i + 1
    /\ UNCHANGED <<body, global_macros, file_macros, all_macros, pass, mac_pc,
                   notMac>>

\* Line 74: the end of a pass; after the third, expand_macros returns text.
MacNextPass ==
    /\ mac_pc = "expand"
    /\ macro_i > Len(all_macros)
    /\ pass' = pass + 1
    /\ macro_i' = 1
    /\ mac_pc' = IF pass + 1 = 3 THEN "done" ELSE "expand"
    /\ UNCHANGED <<body, text, global_macros, file_macros, all_macros, notMac>>

NextMac ==
    \/ MacJoin
    \/ MacApply
    \/ MacNextPass

(***************************************************************************)
(* latex_to_anki_mathjax, from line 253                                    *)
(*                                                                         *)
(* A text is a sequence of characters.  The modelled bodies hold no        *)
(* backslash: the rewrites of lines 210-251 each need a backslash command  *)
(* (\qed, \par, \begin{align}, \begin{equation}, \begin{enumerate},        *)
(* \begin{itemize}) and leave such a body as it is, so the model starts    *)
(* with the text as it stands at line 253.                                 *)
(***************************************************************************)
\* t[a..b] by index, empty when b < a.
Part(t, a, b) == SubSeq(t, a, b)

\* The first index i >= from with t[i] = t[i + 1] = "$", or 0.
FirstDollarPair(t, from) ==
    LET hits == {i \in from..(Len(t) - 1) : t[i] = "$" /\ t[i + 1] = "$"}
    IN  IF hits = {} THEN 0 ELSE Min(hits)

RECURSIVE SubDisplayMath(_)
\* Lines 255-259: re.sub(r'\$\$(.*?)\$\$', \[ group 1 \], DOTALL).
SubDisplayMath(t) ==
    LET s == FirstDollarPair(t, 1)
        e == IF s = 0 THEN 0 ELSE FirstDollarPair(t, s + 2)
    IN  IF e = 0 THEN t
        ELSE Part(t, 1, s - 1) \o <<"\\", "[">> \o Part(t, s + 2, e - 1)
                \o <<"\\", "]">> \o SubDisplayMath(Part(t, e + 2, Len(t)))

\* (?<!\$)\$(?!\$) at index i of t.
LoneDollar(t, i) ==
    /\ t[i] = "$"
    /\ i = 1 \/ t[i - 1] # "$"
    /\ i = Len(t) \/ t[i + 1] # "$"

FirstLoneDollar(t, from) ==
    LET hits == {i \in from..Len(t) : LoneDollar(t, i)}
    IN  IF hits = {} THEN 0 ELSE Min(hits)

RECURSIVE SubInlineMathFrom(_, _)
\* The rewrite of lines 264-268 on t from index from on; the look-behind
\* of a later match still sees the characters before from.
SubInlineMathFrom(t, from) ==
    LET s == FirstLoneDollar(t, from)
        e == IF s = 0 THEN 0 ELSE FirstLoneDollar(t, s + 1)
    IN  IF e = 0 THEN Part(t, from, Len(t))
        ELSE Part(t, from, s - 1) \o <<"\\", "(">> \o Part(t, s + 1, e - 1)
                \o <<"\\", ")">> \o SubInlineMathFrom(t, e + 1)

\* Lines 264-268: re.sub(r'(?<!\$)\$(?!\$)(.*?)(?<!\$)\$(?!\$)', \( group 1 \), DOTALL).
SubInlineMath(t) == SubInlineMathFrom(t, 1)

\* t starts with the characters of lit.
StartsWith(t, lit) == Len(t) >= Len(lit) /\ Part(t, 1, Len(lit)) = lit

FirstChar(t, c, from) ==
    LET hits == {i \in from..Len(t) : t[i] = c}
    IN  IF hits = {} THEN 0 ELSE Min(hits)

RECURSIVE SubCommand(_, _, _, _)
\* re.sub(r'\\cmd\{([^}]*)\}', open group 1 close, t), with opener the
\* characters of \cmd{ .
SubCommand(t, opener, open, close) ==
    IF t = <<>> THEN <<>>
    ELSE LET c == IF StartsWith(t, opener)
                  THEN FirstChar(t, "}", Len(opener) + 1) ELSE 0
         IN  IF c = 0
             THEN <<Head(t)>> \o SubCommand(Tail(t), opener, open, close)
             ELSE open \o Part(t, Len(opener) + 1, c - 1) \o close
                    \o SubCommand(Part(t, c + 1, Len(t)), opener, open, close)

\* Lines 271-273: \textit{..} and \emph{..} to <i>..</i>, \textbf{..} to <b>..</b>.
SubEmphasis(t) ==
    LET i1 == SubCommand(t, <<"\\", "t", "e", "x", "t", "i", "t", "{">>,
                         <<"<", "i", ">">>, <<"<", "/", "i", ">">>)
        b1 == SubCommand(i1, <<"\\", "t", "e", "x", "t", "b", "f", "{">>,
                         <<"<", "b", ">">>, <<"<", "/", "b", ">">>)
    IN  SubCommand(b1, <<"\\", "e", "m", "p", "h", "{">>,
                   <<"<", "i", ">">>, <<"<", "/", "i", ">">>)

BR == <<"<", "b", "r", ">">>

Whitespace == {" ", "\t", "\n"}

RECURSIVE StripChars(_, _)
\* str.strip(chars): the characters of the set chars removed at both ends.
StripChars(t, chars) ==
    IF t = <<>> THEN t
    ELSE IF Head(t) \in chars THEN StripChars(Tail(t), chars)
    ELSE IF t[Len(t)] \in chars THEN StripChars(Part(t, 1, Len(t) - 1), chars)
    ELSE t

RECURSIVE SplitLines(_)
\* text.split('\n')
SplitLines(t) ==
    LET n == FirstChar(t, "\n", 1)
    IN  IF n = 0 THEN <<t>>
        ELSE <<Part(t, 1, n - 1)>> \o SplitLines(Part(t, n + 1, Len(t)))

RECURSIVE JoinLines(_)
\* '<br>'.join(cleaned_lines), each line stripped (lines 277-282).
JoinLines(lines) ==
    IF Len(lines) = 1 THEN StripChars(lines[1], Whitespace)
    ELSE StripChars(lines[1], Whitespace) \o BR \o JoinLines(Tail(lines))

RECURSIVE BrRun(_)
\* How many <br> the text starts with.
BrRun(t) == IF StartsWith(t, BR) THEN 1 + BrRun(Part(t, 5, Len(t))) ELSE 0

RECURSIVE CollapseBr(_)
\* Line 284: re.sub(r'(<br>){3,}', '<br><br>', t).
CollapseBr(t) ==
    IF t = <<>> THEN <<>>
    ELSE LET k == BrRun(t)
         IN  IF k >= 3
             THEN BR \o BR \o CollapseBr(Part(t, 4 * k + 1, Len(t)))
             ELSE <<Head(t)>> \o CollapseBr(Tail(t))

\* Line 287: re.sub(r'^(<br>)+', '', t).
DropLeadingBr(t) == Part(t, 4 * BrRun(t) + 1, Len(t))

\* Line 288: re.sub(r'(<br>)+$', '', t): the leftmost run of <br> that
\* reaches the end of the text is removed.
DropTrailingBr(t) ==
    LET starts == {p \in 1..Len(t) :
                      LET k == BrRun(Part(t, p, Len(t)))
                      IN  k >= 1 /\ p + 4 * k - 1 = Len(t)}
    IN  IF starts = {} THEN t ELSE Part(t, 1, Min(starts) - 1)

\* Lines 276-290.
NormalizeBreaks(t) ==
    LET joined == JoinLines(SplitLines(t))
        collapsed == CollapseBr(joined)
        stripped == StripChars(collapsed, {"<", "b", "r", ">"})
    IN  StripChars(DropTrailingBr(DropLeadingBr(stripped)), Whitespace)

\* Bodies with math delimiters.
MathChars == {"$", "x"}

MaxMathLen == 8

\* Bodies with line breaks, blanks, and the characters of a <br> marker.
BreakChars == {"a", "b", "r", "<", ">", " ", "\n"}

MaxBreakLen == 5

InitMjIdle ==
    /\ mj_in = <<>>
    /\ mj_text = <<>>
    /\ mj_pc = "idle"

InitMj ==
    /\ mj_in \in SeqsUpTo(MathChars, MaxMathLen) \cup SeqsUpTo(BreakChars, MaxBreakLen)
    /\ mj_text = mj_in
    /\ mj_pc = "display"

MjDisplayMath ==
    /\ mj_pc = "display"
    /\ mj_text' = SubDisplayMath(mj_text)
    /\ mj_pc' = "inline"
    /\ UNCHANGED <<mj_in, notMj>>

MjInlineMath ==
    /\ mj_pc = "inline"
    /\ mj_text' = SubInlineMath(mj_text)
    /\ mj_pc' = "emphasis"
    /\ UNCHANGED <<mj_in, notMj>>

MjEmphasis ==
    /\ mj_pc = "emphasis"
    /\ mj_text' = SubEmphasis(mj_text)
    /\ mj_pc' = "breaks"
    /\ UNCHANGED <<mj_in, notMj>>

MjBreaks ==
    /\ mj_pc = "breaks"
    /\ mj_text' = NormalizeBreaks(mj_text)
    /\ mj_pc' = "done"
    /\ UNCHANGED <<mj_in, notMj>>

NextMj ==
    \/ MjDisplayMath
    \/ MjInlineMath
    \/ MjEmphasis
    \/ MjBreaks

(***************************************************************************)
(* The card of a block (process_file, lines 325-348) and its row in the    *)
(* output file (main, lines 378-382)                                       *)
(*                                                                         *)
(* A string is a sequence of pieces: one character, or a literal of the    *)
(* code that holds no tab, blank, comma or ampersand other than the ones   *)
(* written out as pieces of their own.                                     *)
(***************************************************************************)
\* The characters of the modelled directory names, titles and bodies.
FieldChars == {"\t", " ", "&", "a"}

MaxFieldLen == 2

MaxBackLen == 3

\* env_type.capitalize()
Capitalize(env) ==
    CASE env = "theorem" -> "Theorem"
      [] env = "proposition" -> "Proposition"
      [] env = "definition" -> "Definition"
      [] env = "lemma" -> "Lemma"
      [] env = "corollary" -> "Corollary"

RECURSIVE ReplaceTabs(_)
\* s.replace('\t', ' ')
ReplaceTabs(str) ==
    IF str = <<>> THEN <<>>
    ELSE <<IF Head(str) = "\t" THEN " " ELSE Head(str)>> \o ReplaceTabs(Tail(str))

RECURSIVE sanitize_tag(_)
\* Line 300: text.replace(' ', '_').replace(',', '').replace('&', 'and')
sanitize_tag(str) ==
    IF str = <<>> THEN <<>>
    ELSE (CASE Head(str) = " " -> <<"_">>
            [] Head(str) = "," -> <<>>
            [] Head(str) = "&" -> <<"and">>
            [] OTHER -> <<Head(str)>>)
            \o sanitize_tag(Tail(str))

\* The index at which lit first occurs in str, or 0.
FindLiteral(str, lit) ==
    LET hits == {i \in 1..(Len(str) - Len(lit) + 1) :
                    SubSeq(str, i, i + Len(lit) - 1) = lit}
    IN  IF hits = {} THEN 0 ELSE Min(hits)

\* section_ctx.split(' > ')[0]
TopSection(ctx) ==
    LET i == FindLiteral(ctx, <<" ", ">", " ">>)
    IN  IF i = 0 THEN ctx ELSE SubSeq(ctx, 1, i - 1)

\* Lines 325-334.
Front(env, ttl, ctx, crs) ==
    (IF ttl # <<>>
     THEN <<"<b>", Capitalize(env), "</b>", ":", " ">> \o ttl
     ELSE <<"<b>", Capitalize(env), "</b>">>
            \o (IF ctx # <<>> THEN <<" ", "(">> \o ctx \o <<")">> ELSE <<>>))
        \o <<"<br><i>[">> \o crs \o <<"]</i>">>

\* Lines 340-346: ' '.join(tags).
TagString(env, ctx, crs) ==
    sanitize_tag(crs) \o <<" ">> \o sanitize_tag(<<env>>)
        \o (IF ctx # <<>> THEN <<" ">> \o sanitize_tag(TopSection(ctx)) ELSE <<>>)

\* Lines 380-382: the line written for a card.
RowOf(c) ==
    ReplaceTabs(c.front) \o <<"\t">> \o ReplaceTabs(c.back) \o <<"\t">>
        \o c.tags \o <<"\n">>

NoCard == [front |-> <<>>, back |-> <<>>, tags |-> <<>>]

InitRowIdle ==
    /\ course = <<>>
    /\ env_type = ""
    /\ title = <<>>
    /\ section_ctx = <<>>
    /\ back = <<>>
    /\ card = NoCard
    /\ row = <<>>
    /\ row_pc = "idle"

\* course is a directory name; title is the stripped text of the leading
\* parentheses, empty when the body has none; section_ctx is the heading
\* context; back is what latex_to_anki_mathjax returns, which has no
\* whitespace at its ends.
InitRow ==
    /\ course \in SeqsUpTo(FieldChars, MaxFieldLen) \ {<<>>}
    /\ env_type \in {ENV_TYPES[i] : i \in 1..Len(ENV_TYPES)}
    /\ title \in {t \in SeqsUpTo(FieldChars, 1) : StripChars(t, Whitespace) = t}
    /\ section_ctx \in SeqsUpTo(FieldChars, 1)
    /\ back \in {t \in SeqsUpTo(FieldChars, MaxBackLen) :
                    StripChars(t, Whitespace) = t}
    /\ card = NoCard
    /\ row = <<>>
    /\ row_pc = "assemble"

\* process_file, lines 325-348.
RowAssemble ==
    /\ row_pc = "assemble"
    /\ card' = [front |-> Front(env_type, title, section_ctx, course),
                back |-> back,
                tags |-> TagString(env_type, section_ctx, course)]
    /\ row_pc' = "write"
    /\ UNCHANGED <<course, env_type, title, section_ctx, back, row, notRow>>

\* main, lines 378-382.
RowWrite ==
    /\ row_pc = "write"
    /\ row' = RowOf(card)
    /\ row_pc' = "written"
    /\ UNCHANGED <<course, env_type, title, section_ctx, back, card, notRow>>

NextRow ==
    \/ RowAssemble
    \/ RowWrite

(***************************************************************************)
(* main                                                                    *)
(*                                                                         *)
(* A discovered document can be read or not, and yields some cards;        *)
(* header.sty is missing, readable or unreadable.  open() of a file that   *)
(* cannot be read raises, nothing catches it, and main ends there.         *)
(***************************************************************************)
MaxFiles == 3

MaxCards == 1

Documents == [readable : BOOLEAN, cards : 0..MaxCards]

\* The cards process_file returns for document i: (i, 1), .., (i, n).
CardsOf(i, doc) == [k \in 1..doc.cards |-> <<i, k>>]

InitMainIdle ==
    /\ tex_files = <<>>
    /\ header_sty = "missing"
    /\ loaded_macros = 0
    /\ file_i = 0
    /\ all_cards = <<>>
    /\ output_open = FALSE
    /\ output_rows = <<>>
    /\ main_pc = "idle"

InitMain ==
    /\ tex_files \in SeqsUpTo(Documents, MaxFiles)
    /\ header_sty \in {"missing", "readable", "unreadable"}
    /\ loaded_macros = 0
    /\ file_i = 1
    /\ all_cards = <<>>
    /\ output_open = FALSE
    /\ output_rows = <<>>
    /\ main_pc = "load"

\* Line 356 and load_global_macros (lines 101-107): a missing header.sty
\* gives the empty list; loaded_macros is 1 when the file was parsed.
MainLoadGlobalMacros ==
    /\ main_pc = "load"
    /\ IF header_sty = "unreadable"
       THEN main_pc' = "crashed" /\ UNCHANGED loaded_macros
       ELSE /\ main_pc' = "process"
            /\ loaded_macros' = IF header_sty = "readable" THEN 1 ELSE 0
    /\ UNCHANGED <<tex_files, header_sty, file_i, all_cards, output_open,
                   output_rows, notMain>>

\* A variant with per-document isolation: a document that cannot be read
\* is skipped and the loop goes on.
MainProcessFileIsolated ==
    /\ main_pc = "process"
    /\ file_i <= Len(tex_files)
    /\ all_cards' = IF tex_files[file_i].readable
                    THEN all_cards \o CardsOf(file_i, tex_files[file_i])
                    ELSE all_cards
    /\ file_i' = file_i + 1
    /\ UNCHANGED <<tex_files, header_sty, loaded_macros, output_open,
                   output_rows, main_pc, notMain>>

\* Lines 364-368: one turn of the loop over the documents.
MainProcessFile ==
    /\ main_pc = "process"
    /\ file_i <= Len(tex_files)
    /\ IF tex_files[file_i].readable
       THEN /\ all_cards' = all_cards \o CardsOf(file_i, tex_files[file_i])
            /\ file_i' = file_i + 1
            /\ UNCHANGED main_pc
       ELSE /\ main_pc' = "crashed"
            /\ UNCHANGED <<all_cards, file_i>>
    /\ UNCHANGED <<tex_files, header_sty, loaded_macros, output_open,
                   output_rows, notMain>>

\* Lines 371-382: the output file is opened and one row per card written.
MainWriteOutput ==
    /\ main_pc = "process"
    /\ file_i > Len(tex_files)
    /\ output_open' = TRUE
    /\ output_rows' = all_cards
    /\ main_pc' = "done"
    /\ UNCHANGED <<tex_files, header_sty, loaded_macros, file_i, all_cards,
                   notMain>>

NextMain ==
    \/ MainLoadGlobalMacros
    \/ MainProcessFile
    \/ MainWriteOutput

(***************************************************************************)
(* Specifications                                                          *)
(***************************************************************************)
InitSpecEnv == InitEnv /\ InitCtxIdle /\ InitMacIdle /\ InitMjIdle
    /\ InitRowIdle /\ InitMainIdle

\* find_environments is straight-line code with no suspension point: a step
\* that can be taken is taken.
SpecEnv ==
    /\ InitSpecEnv
    /\ [][NextEnv]_vars
    /\ WF_vars(NextEnv)

InitSpecCtx == InitCtx /\ InitEnvIdle /\ InitMacIdle /\ InitMjIdle
    /\ InitRowIdle /\ InitMainIdle

SpecCtx == InitSpecCtx /\ [][NextCtx]_vars

InitSpecMacro == InitMacNest /\ InitEnvIdle /\ InitCtxIdle /\ InitMjIdle
    /\ InitRowIdle /\ InitMainIdle

SpecMacro == InitSpecMacro /\ [][NextMac]_vars

InitSpecShadow == InitMacDup /\ InitEnvIdle /\ InitCtxIdle /\ InitMjIdle
    /\ InitRowIdle /\ InitMainIdle

SpecShadow == InitSpecShadow /\ [][NextMac]_vars

InitSpecMathjax == InitMj /\ InitEnvIdle /\ InitCtxIdle /\ InitMacIdle
    /\ InitRowIdle /\ InitMainIdle

SpecMathjax == InitSpecMathjax /\ [][NextMj]_vars

InitSpecRow ==
    InitRow /\ InitEnvIdle /\ InitCtxIdle /\ InitMacIdle /\ InitMjIdle
        /\ InitMainIdle

SpecRow == InitSpecRow /\ [][NextRow]_vars

InitSpecMain ==
    InitMain /\ InitEnvIdle /\ InitCtxIdle /\ InitMacIdle /\ InitMjIdle
        /\ InitRowIdle

SpecMain == InitSpecMain /\ [][NextMain]_vars

(***************************************************************************)
(* Blocks, read off the document itself                                    *)
(***************************************************************************)
\* The offsets of the open markers of any type.
AllOpens ==
    {o \in 0..(Len(tex_content) - 1) : tex_content[o + 1].k = "begin"}

TypeAt(o) == tex_content[o + 1].v

\* How many of the tokens at offsets a..b are tok.
CountIn(tok, a, b) == Cardinality({i \in a..b : tex_content[i + 1] = tok})

\* The close marker that matches the open marker at offset o: the first
\* offset after o up to which the close markers of o's type outnumber its
\* open markers; None when there is none before the end of the document.
CloseOf(o) ==
    LET closes ==
            {e \in (o + 1)..(Len(tex_content) - 1) :
                CountIn(End(TypeAt(o)), o + 1, e)
                    > CountIn(Begin(TypeAt(o)), o + 1, e)}
    IN  IF closes = {} THEN None ELSE Min(closes)

WellFormed(o) == CloseOf(o) # None

\* The open marker at inner lies inside the well-formed block of the same
\* type opened at outer.
NestedIn(inner, outer) ==
    /\ TypeAt(inner) = TypeAt(outer)
    /\ WellFormed(outer)
    /\ outer < inner
    /\ inner < CloseOf(outer)

\* The Block of the well-formed block opened at o: its type, the text
\* strictly between its markers without the whitespace at its ends, and o.
BlockOf(o) ==
    [env |-> TypeAt(o),
     body |-> Strip(Slice(tex_content, o + 1, CloseOf(o))),
     start |-> o]

Returned == {results[i] : i \in 1..Len(results)}

RECURSIVE Ascending(_)
Ascending(S) ==
    IF S = {} THEN <<>> ELSE <<Min(S)>> \o Ascending(S \ {Min(S)})

\* C1: when a well-formed block of type T is nested in another well-formed
\* block of type T, find_environments returns one Block for the pair, the
\* outer one, whose body holds the inner block as literal text; the inner
\* block is not returned as a Block of its own.
C1_NestedReturnsOuterOnly ==
    env_pc = "done" =>
        \A outer \in AllOpens : \A inner \in AllOpens :
            (NestedIn(inner, outer) /\ WellFormed(inner)) =>
                /\ BlockOf(outer) \in Returned
                /\ \A i \in 1..Len(results) : results[i].start # inner

\* Every open marker of the document is matched, and none lies inside a
\* block of its own type.
WellFormedUnnested ==
    \A o \in AllOpens :
        /\ WellFormed(o)
        /\ \A outer \in AllOpens : ~NestedIn(o, outer)

\* C2: for a document whose blocks are well-formed and not nested in a
\* block of the same type, find_environments returns one Block per block,
\* in ascending start offset whatever the order the types are scanned in,
\* each with the trimmed text strictly between its markers as its body.
C2_BlocksInDocumentOrder ==
    (env_pc = "done" /\ WellFormedUnnested) =>
        LET opens == Ascending(AllOpens)
        IN  results = [i \in 1..Len(opens) |-> BlockOf(opens[i])]

\* A lemma block before a theorem block (the types are scanned theorem
\* first), one of them with whitespace to trim, both returned.
C2_Witness ==
    /\ env_pc = "done"
    /\ WellFormedUnnested
    /\ Len(results) = 2
    /\ results[1].env = "lemma"
    /\ results[2].env = "theorem"
    /\ \E o \in AllOpens :
          Slice(tex_content, o + 1, CloseOf(o)) # BlockOf(o).body

\* A turn of the depth-counting loop moves search_pos forward unless it is
\* the turn that gives up; closing a block moves pos forward; neither
\* cursor passes the end of the document.
CursorsAdvance ==
    /\ env_pc = "scan" =>
          \/ search_pos' > search_pos
          \/ env_pc' = "close" /\ end_pos' = None /\ search_pos' = search_pos
    /\ env_pc = "close" => pos' > pos
    /\ search_pos' <= Len(tex_content)
    /\ pos' <= Len(tex_content)

\* C3: an open marker whose depth-counting scan reaches the end of the
\* document without the depth returning to 0 yields no Block; every
\* well-formed block is still returned; the scan cursors strictly advance
\* and find_environments ends.
C3_MalformedSkipped ==
    /\ [](env_pc = "done" =>
            \A o \in AllOpens :
                IF WellFormed(o)
                THEN BlockOf(o) \in Returned
                ELSE \A i \in 1..Len(results) : results[i].start # o)
    /\ [][CursorsAdvance]_vars
    /\ <>(env_pc = "done")

\* An unmatched open marker followed by a well-formed block, which is
\* returned.
C3_Witness ==
    /\ env_pc = "done"
    /\ \E o \in AllOpens : \E w \in AllOpens :
          /\ ~WellFormed(o)
          /\ WellFormed(w)
          /\ TypeAt(o) = TypeAt(w)
          /\ o < w
          /\ Returned = {BlockOf(w)}

(***************************************************************************)
(* Heading context, read off the heading list itself                       *)
(***************************************************************************)
\* The headings at a position <= query_pos.
UpTo == {i \in 1..Len(sections) : sections[i].pos <= query_pos}

\* The most recent heading of level up to query_pos, or 0.
LastOf(level) ==
    LET mine == {i \in UpTo : sections[i].type = level}
    IN  IF mine = {} THEN 0 ELSE Max(mine)

\* level is active: its most recent heading up to query_pos is followed,
\* up to query_pos, by no heading of a strictly shallower level.
Active(level) ==
    /\ LastOf(level) # 0
    /\ \A j \in UpTo :
          j > LastOf(level) =>
              HierarchyIndex(sections[j].type) >= HierarchyIndex(level)

RECURSIVE ActiveTitles(_)
ActiveTitles(levels) ==
    IF levels = <<>> THEN <<>>
    ELSE (IF Active(Head(levels))
          THEN <<sections[LastOf(Head(levels))].title>> ELSE <<>>)
            \o ActiveTitles(Tail(levels))

\* C4: get_section_context returns the titles of the active levels, top to
\* low, joined by " > ": a level is active iff its most recent heading at a
\* position <= P is followed up to P by no strictly shallower heading; a
\* later heading of a level replaces the earlier one; no heading up to P
\* gives the empty string.
C4_ActiveHeadings ==
    ctx_pc = "done" =>
        /\ context = JoinWith(" > ", ActiveTitles(hierarchy))
        /\ (UpTo = {} => context = "")

\* Ch1 at 0, S1 at 1, S2 at 2 (ranks top, mid, mid), asked at the last
\* position: the second mid heading has replaced the first.
C4_Witness ==
    /\ ctx_pc = "done"
    /\ sections = <<[pos |-> 0, type |-> "section", title |-> "Ch1"],
                    [pos |-> 1, type |-> "subsection", title |-> "S1"],
                    [pos |-> 2, type |-> "subsection", title |-> "S2"]>>
    /\ query_pos = 2
    /\ context = "Ch1 > S2"

(***************************************************************************)
(* Macro expansion, pass by pass                                           *)
(***************************************************************************)
Tokens(t) == {t[i] : i \in 1..Len(t)}

\* The pattern of macro m matches somewhere in t.
HasMatch(t, m) ==
    \E p \in 1..Len(t) : MatchLen(SubSeq(t, p, Len(t)), m) > 0

\* The names of the macros of the list.
MacroNames(ms) == {ms[i].name : i \in 1..Len(ms)}

\* No template of the list holds the name of a macro of the list.
NoTemplateNamesMacro(ms) ==
    \A i \in 1..Len(ms) : Tokens(ms[i].replacement) \cap MacroNames(ms) = {}

\* C5: with a macro list in which no template holds a macro name, the
\* first of the three passes produces the final text: no step of the second
\* or third pass changes the text, also when a macro occurrence lies inside
\* the argument of another.
C5_FirstPassIsFinal ==
    [][(mac_pc = "expand" /\ pass >= 1 /\ NoTemplateNamesMacro(all_macros))
          => text' = text]_vars

\* The list the claim speaks of: the shared definitions, then the
\* document's own.
SharedThenOwn == global_macros \o file_macros

RECURSIVE ApplyInOrder(_, _)
\* t after the macros of ms have been applied to it one after the other.
ApplyInOrder(t, ms) ==
    IF ms = <<>> THEN t ELSE ApplyInOrder(Sub(t, Head(ms)), Tail(ms))

RECURSIVE AtPassStart(_)
\* The text at the start of pass p (1, 2, 3).
AtPassStart(p) ==
    IF p = 1 THEN body ELSE ApplyInOrder(AtPassStart(p - 1), SharedThenOwn)

\* The text in pass p when the turn of entry k of the list comes.
AtTurn(p, k) ==
    ApplyInOrder(AtPassStart(p), SubSeq(SharedThenOwn, 1, k - 1))

\* The shared definition and the document's own definition of the same
\* name and arity: the first and the last entry of the list.
SharedEntry == global_macros[1]

OwnEntry == file_macros[Len(file_macros)]

Shadowing ==
    /\ global_macros # <<>>
    /\ file_macros # <<>>
    /\ SharedEntry.name = OwnEntry.name
    /\ SharedEntry.num_args = OwnEntry.num_args

\* The letter that marks a template.
Mark(m) == Head(m.replacement)

RECURSIVE WellDelimited(_)
\* The body is made of plain characters, display spans $$X$$ and inline
\* spans $x$ (x not empty), with no dollar inside a span.
WellDelimited(t) ==
    IF t = <<>> THEN TRUE
    ELSE IF Head(t) # "$" THEN WellDelimited(Tail(t))
    ELSE IF Len(t) >= 2 /\ t[2] = "$"
    THEN LET c == FirstChar(t, "$", 3)
         IN  /\ c # 0
             /\ c < Len(t)
             /\ t[c + 1] = "$"
             /\ WellDelimited(Part(t, c + 2, Len(t)))
    ELSE LET c == FirstChar(t, "$", 2)
         IN  c # 0 /\ WellDelimited(Part(t, c + 1, Len(t)))

RECURSIVE Spans(_, _)
\* A well-delimited body with each display span $$X$$ written \[X\] and,
\* when inline is TRUE, each inline span $x$ written \(x\).
Spans(t, inline) ==
    IF t = <<>> THEN <<>>
    ELSE IF Head(t) # "$" THEN <<Head(t)>> \o Spans(Tail(t), inline)
    ELSE IF t[2] = "$"
    THEN LET c == FirstChar(t, "$", 3)
         IN  <<"\\", "[">> \o Part(t, 3, c - 1) \o <<"\\", "]">>
                \o Spans(Part(t, c + 2, Len(t)), inline)
    ELSE LET c == FirstChar(t, "$", 2)
         IN  (IF inline
              THEN <<"\\", "(">> \o Part(t, 2, c - 1) \o <<"\\", ")">>
              ELSE Part(t, 1, c))
                \o Spans(Part(t, c + 1, Len(t)), inline)

RECURSIVE InlineDelimitersLone(_, _)
\* From index from on, neither delimiter of an inline span of the
\* well-delimited body t is next to another dollar.
InlineDelimitersLone(t, from) ==
    IF from > Len(t) THEN TRUE
    ELSE IF t[from] # "$" THEN InlineDelimitersLone(t, from + 1)
    ELSE IF t[from + 1] = "$"
    THEN InlineDelimitersLone(t, FirstChar(t, "$", from + 2) + 2)
    ELSE LET c == FirstChar(t, "$", from + 1)
         IN  /\ LoneDollar(t, from)
             /\ LoneDollar(t, c)
             /\ InlineDelimitersLone(t, c + 1)

\* C8: every span $$X$$ is rewritten to \[X\] by the rule that runs first,
\* which leaves no dollar of a $$..$$ pair for the single-dollar rule, also
\* when the span is next to a $..$ span; and when no inline delimiter is
\* next to another dollar, every span $x$ is rewritten to \(x\).
C8_DollarRulesDoNotInterfere ==
    WellDelimited(mj_in) =>
        /\ mj_pc = "inline" => mj_text = Spans(mj_in, FALSE)
        /\ (mj_pc = "done" /\ InlineDelimitersLone(mj_in, 1)) =>
                mj_text = Spans(mj_in, TRUE)

\* The text of lines 276-284 with the <br> markers at its two ends, and
\* then the whitespace at its two ends, removed.
BreaksOnly(t) ==
    StripChars(
        DropTrailingBr(DropLeadingBr(CollapseBr(JoinLines(SplitLines(t))))),
        Whitespace)

\* C9: the whitespace normalization removes from the two ends of the text
\* only whole <br> markers and whitespace: its result is the text with its
\* lines trimmed and joined by <br>, runs of three or more <br> cut to two,
\* and the <br> markers at the two ends removed.
C9_OnlyWholeMarkersStripped ==
    [][mj_pc = "breaks" => mj_text' = BreaksOnly(mj_text)]_vars

(***************************************************************************)
(* Rows and the batch                                                      *)
(***************************************************************************)
TabCount(str) == Cardinality({i \in 1..Len(str) : str[i] = "\t"})

\* C6: every data row main writes has exactly three tab-separated columns,
\* that is exactly two tabs, also when the directory name, the title, the
\* heading title or the body holds a tab.
C6_RowHasThreeColumns ==
    row_pc = "written" => TabCount(row) = 2

\* C7: the output file is opened only after every discovered document has
\* been read and processed; when a document cannot be read the batch ends
\* with the output file not written, whatever was processed before; a
\* missing shared definitions file gives no global macros and is no failure.
C7_AllOrNothing ==
    /\ output_open =>
          /\ main_pc = "done"
          /\ \A i \in 1..Len(tex_files) : tex_files[i].readable
          /\ Len(output_rows) = Len(all_cards)
    /\ (main_pc \in {"done", "crashed"}
            /\ \E i \in 1..Len(tex_files) : ~tex_files[i].readable
            /\ header_sty # "unreadable") =>
          /\ main_pc = "crashed"
          /\ ~output_open
          /\ output_rows = <<>>
    /\ (header_sty = "missing" /\ main_pc # "load") =>
          /\ loaded_macros = 0
          /\ main_pc = "crashed" =>
                file_i \in 1..Len(tex_files) /\ ~tex_files[file_i].readable

\* Without header.sty, a document with cards is processed, the next one
\* cannot be read, and the batch ends with no output file.
C7_Witness ==
    /\ main_pc = "crashed"
    /\ header_sty = "missing"
    /\ file_i >= 2
    /\ all_cards # <<>>
    /\ ~output_open

=============================================================================
